---- MODULE Spec2Model ----
(***************************************************************************)
(* TraceWriter of cloud-trace-nodejs: the buffer of serialized traces, the *)
(* identity (project id) lookups, the construction of the default labels,  *)
(* the three flush triggers (size, periodic timer, uncaught exception) and *)
(* the fire-and-forget publish.  One action per handler or callback of     *)
(* src/src/config.ts (lines 281-569); the event loop may interleave the    *)
(* callbacks in any order.                                                 *)
(***************************************************************************)
EXTENDS Integers, Sequences, FiniteSets, TLC

\* ------------------------------------------------------------------ bounds
\* writeSpan calls made by the host application
MaxWrites == 3
\* writeSpan calls in the runs that follow the identity lookups
MaxDeferredWrites == 2
\* writeSpan calls in the runs that follow the labels
MaxLabelWrites == 1

\* writeSpan calls in the runs that follow the uncaught exceptions
MaxExceptionWrites == 3

\* writeSpan calls in the runs that follow the service context
MaxServiceWrites == 1

\* --------------------------------------------------------------- constants
NO_PROJECT_ID_TOKEN == "{{projectId}}"

onUncaughtExceptionValues == {"ignore", "flush", "flushAndExit"}

\* an option string that is left out or empty (both are falsy)
None == <<>>
\* config.projectId left out
NoProjectId == ""

\* SpanKind (imported from ./trace)
RPC_SERVER == "RPC_SERVER"
RPC_CLIENT == "RPC_CLIENT"

\* TraceLabels (imported from ./trace-labels)
AGENT_DATA == "agent"
GCE_HOSTNAME == "gce/hostname"
GCE_INSTANCE_ID == "gce/instanceid"
GAE_MODULE_NAME == "gae/module_name"
GAE_MODULE_VERSION == "gae/module_version"
GAE_VERSION == "gae/version"

\* Strings that the code concatenates are sequences of tokens; `${value}` of
\* a number (the instance id) prints its decimal digits.
Digits == <<"0", "1", "2", "3", "4", "5", "6", "7", "8", "9">>

RECURSIVE NumberToString(_)
NumberToString(n) ==
    IF n < 10 THEN <<Digits[n + 1]>>
    ELSE NumberToString(n \div 10) \o <<Digits[(n % 10) + 1]>>

\* what the collaborators answer
MetadataHostname == <<"gce-host">>
OsHostname == <<"os-host">>
InstanceIds == {17}
NoInstanceId == {}
ResolvedProjectId == "my-project"
ConfiguredProjectId == "cfg-project"
AgentData == <<"node ", "pjson.name", " v", "pjson.version">>
Now == "now"

\* ------------------------------------------------------------------ labels
EmptyLabels == [k \in {} |-> <<>>]

\* a merge that keeps the value of a key the target already has
ObjectAssign_KeepTarget(target, source) ==
    [k \in (DOMAIN target) \cup (DOMAIN source) |->
        IF k \in DOMAIN target THEN target[k] ELSE source[k]]

\* Object.assign(target, source): every key of source is written to target
ObjectAssign(target, source) ==
    [k \in (DOMAIN target) \cup (DOMAIN source) |->
        IF k \in DOMAIN source THEN source[k] ELSE target[k]]

\* An optional argument is the set of the values passed: {} is undefined.
ValueOf(optional) == CHOOSE v \in optional : TRUE
\* `if (instanceId)`: undefined and 0 are falsy
Truthy(optional) == optional # {} /\ ValueOf(optional) # 0

\* addDefaultLabel(key, value) on the labels being built; `${value}` leaves a
\* string as it is
addDefaultLabel(labels, key, value) ==
    ObjectAssign(labels, [k \in {key} |-> value])

\* a version label that always carries the module name
VersionLabel_AlwaysPrefixed(moduleName, moduleVersion, minorVersion) ==
    moduleName \o <<":">> \o moduleVersion \o <<".">> \o minorVersion

\* versionLabel of initialize: `moduleName:` unless the module is 'default',
\* then `version.minorVersion`
VersionLabel(moduleName, moduleVersion, minorVersion) ==
    (IF moduleName # <<"default">> THEN moduleName \o <<":">> ELSE <<>>)
    \o moduleVersion \o <<".">> \o minorVersion

\* the body of the getInstanceId callback of initialize, up to the freeze
BuildDefaultLabels(serviceContext, hostname, instanceId) ==
    LET l0 == addDefaultLabel(EmptyLabels, AGENT_DATA, AgentData)
        l1 == addDefaultLabel(l0, GCE_HOSTNAME, hostname)
        l2 == IF Truthy(instanceId)
              THEN addDefaultLabel(l1, GCE_INSTANCE_ID,
                                   NumberToString(ValueOf(instanceId)))
              ELSE l1
        moduleName == IF serviceContext.service # None
                      THEN serviceContext.service ELSE hostname
        l3 == addDefaultLabel(l2, GAE_MODULE_NAME, moduleName)
        moduleVersion == serviceContext.version
        minorVersion == serviceContext.minorVersion
        versionLabel == VersionLabel(moduleName, moduleVersion, minorVersion)
        l4 == IF moduleVersion # None
              THEN addDefaultLabel(l3, GAE_MODULE_VERSION, moduleVersion)
              ELSE l3
    IN  IF moduleVersion # None /\ minorVersion # None
        THEN addDefaultLabel(l4, GAE_VERSION, versionLabel)
        ELSE l4

\* ------------------------------------------------------------------ traces
\* what the instrumentation hands to writeSpan: the spans of one trace
CallerLabels == [k \in {GCE_HOSTNAME, "caller/key"} |-> <<"caller">>]

PlainSpans ==
    { <<[kind |-> RPC_CLIENT, labels |-> CallerLabels, endTime |-> "t0"]>> }

SpanInputs ==
    PlainSpans \cup
    { <<[kind |-> RPC_SERVER, labels |-> CallerLabels, endTime |-> ""]>> }

NoTrace == [projectId |-> "", traceId |-> 0, spans |-> <<>>]

\* a first loop that stamps nothing
StampEndTime_Skip(span) == span

\* writeSpan, first loop: a span without an end time gets the current time
StampEndTime(span) ==
    IF span.endTime = "" THEN [span EXCEPT !.endTime = Now] ELSE span

\* a loop that copies the default labels onto every span
MergeDefaultLabels_AllKinds(span, labels) ==
    [span EXCEPT !.labels = ObjectAssign(span.labels, labels)]

\* a loop that copies the default labels onto the wrong kind of span
MergeDefaultLabels_WrongKind(span, labels) ==
    IF span.kind = RPC_CLIENT
    THEN [span EXCEPT !.labels = ObjectAssign(span.labels, labels)]
    ELSE span

\* writeSpan, second loop: the default labels are copied onto server spans
MergeDefaultLabels(span, labels) ==
    IF span.kind = RPC_SERVER
    THEN [span EXCEPT !.labels = ObjectAssign(span.labels, labels)]
    ELSE span

\* the labels writeSpan copies onto a trace: none without a server span
CopiedLabels(trace, labels) ==
    IF \E i \in 1..Len(trace.spans) : trace.spans[i].kind = RPC_SERVER
    THEN labels ELSE EmptyLabels

\* a label loop with the arguments of Object.assign the wrong way round
LabelsAfterWrite_Swapped(spans, labels) ==
    IF \E i \in 1..Len(spans) : spans[i].kind = RPC_SERVER
    THEN ObjectAssign(labels,
             spans[CHOOSE i \in 1..Len(spans) : spans[i].kind = RPC_SERVER].labels)
    ELSE labels

\* this.defaultLabels after writeSpan: it is the source of Object.assign,
\* never the target
LabelsAfterWrite(spans, labels) == labels

\* the trace object as writeSpan hands it to queueTrace
WriteSpanTrace(trace, labels) ==
    [trace EXCEPT !.spans =
        [i \in 1..Len(trace.spans) |->
            MergeDefaultLabels(StampEndTime(trace.spans[i]), labels)]]

\* JSON.stringify(trace): the object becomes text; labels become the
\* key/value members of a JSON object
StringifySpan(span) ==
    <<span.kind, span.endTime,
      {<<k, span.labels[k]>> : k \in DOMAIN span.labels}>>

JsonStringify(trace) ==
    <<trace.projectId, trace.traceId,
      [i \in 1..Len(trace.spans) |-> StringifySpan(trace.spans[i])]>>

\* `{"traces":[${buffer.join()}]}`
PayloadOf(buf) == <<"traces", buf>>

\* JSON.parse of a payload, as the tests read it back
ParseSpan(text) ==
    [kind |-> text[1], endTime |-> text[2],
     labels |-> [k \in {p[1] : p \in text[3]} |->
                    (CHOOSE p \in text[3] : p[1] = k)[2]]]

\* the traceId member of a serialized trace
TraceIdOf(text) == text[2]

\* the projectId member of a serialized trace
ProjectIdOf(text) == text[1]

ParseTrace(text) ==
    [projectId |-> ProjectIdOf(text), traceId |-> TraceIdOf(text),
     spans |-> [i \in 1..Len(text[3]) |-> ParseSpan(text[3][i])]]

JsonParseTraces(body) == [i \in 1..Len(body[2]) |-> ParseTrace(body[2][i])]

\* ------------------------------------------------------------------- state
VARIABLES
    env,                \* what the application and the collaborators may do
    config,             \* TraceWriterConfig: immutable after construction
    constructed,        \* FALSE: the constructor threw
    observer,           \* process.on('uncaughtException', ...) is installed
    projectId,          \* Service#projectId
    buffer,             \* this.buffer: stringified traces
    defaultLabels,      \* this.defaultLabels
    isActive,           \* this.isActive
    initCalled,         \* initialize was called
    pendingOperations,  \* the local counter of initialize
    cbCalls,            \* the calls initialize made to its callback
    lookups,            \* getProjectId promises not yet settled
    lookupCalls,        \* calls made to Service#getProjectId (super)
    labelStage,         \* where the getHostname/getInstanceId chain stands
    hostnameArg,        \* the hostname the getHostname callback received
    timerPending,       \* pending setTimeout(scheduleFlush) timers
    immediates,         \* pending setImmediate(flushBuffer) callbacks
    exitPending,        \* some setTimeout(process.exit) timer is pending
    exited,             \* process.exit(1) ran
    requests,           \* the calls made to this.request, in order
    logs,               \* logger entries by level and origin
    written,            \* the traces passed to writeSpan as the caller gave
                        \* them, each with the labels writeSpan copied onto it
    fullPushes          \* pushes that left buffer.length >= bufferSize

vars == <<env, config, constructed, observer, projectId, buffer, defaultLabels,
          isActive, initCalled, pendingOperations, cbCalls, lookups,
          lookupCalls, labelStage, hostnameArg, timerPending, immediates,
          exitPending, exited, requests, logs, written, fullPushes>>

\* ---------------------------------------------------------- configurations
NoServiceContext == [service |-> None, version |-> None, minorVersion |-> None]

ServiceContexts ==
    [service : {None, <<"default">>, <<"foo">>},
     version : {None, <<"bar">>},
     minorVersion : {None, <<"baz">>}]

Policies == onUncaughtExceptionValues \cup {"bogus"}

BufferSizes == {1, 2}

\* ------------------------------------------------------------- constructor
\* common.Service: projectId is the configured one or the token
ServiceProjectId(cfg) ==
    IF cfg.projectId # NoProjectId THEN cfg.projectId ELSE NO_PROJECT_ID_TOKEN

ValidPolicy(cfg) == cfg.onUncaughtException \in onUncaughtExceptionValues

\* a constructor that installs the observer before it validates the policy
InstallsObserver_Unchecked(cfg) == cfg.onUncaughtException # "ignore"

\* `if (onUncaughtException !== 'ignore') process.on('uncaughtException', ...)`,
\* reached only when the validation did not throw
InstallsObserver(cfg) ==
    ValidPolicy(cfg) /\ cfg.onUncaughtException # "ignore"

NoLogs ==
    [ctorError |-> 0, initError |-> 0, warnHostname |-> 0,
     warnInstanceId |-> 0, dropInfo |-> 0]

\* new TraceWriter(cfg, logger), in a process that behaves as e allows
Constructor(cfg, e) ==
    /\ env = e
    /\ config = cfg
    /\ constructed = ValidPolicy(cfg)
    /\ observer = InstallsObserver(cfg)
    /\ projectId = ServiceProjectId(cfg)
    /\ buffer = <<>>
    /\ defaultLabels = EmptyLabels
    /\ isActive = TRUE
    /\ initCalled = FALSE
    /\ pendingOperations = 0
    /\ cbCalls = <<>>
    /\ lookups = {}
    /\ lookupCalls = 0
    /\ labelStage = "idle"
    /\ hostnameArg = None
    /\ timerPending = 0
    /\ immediates = 0
    /\ exitPending = FALSE
    /\ exited = FALSE
    /\ requests = <<>>
    /\ logs = [NoLogs EXCEPT !.ctorError = IF ValidPolicy(cfg) THEN 0 ELSE 1]
    /\ written = <<>>
    /\ fullPushes = 0

Outcomes == {"ok", "error"}

\* The flush triggers: a configured project id, policies with and without an
\* observer, every buffer size, no metadata server (as in the tests), spans
\* that take no default labels.
Init ==
    \E cfg \in [projectId : {ConfiguredProjectId},
                onUncaughtException : {"ignore", "flushAndExit", "bogus"},
                bufferSize : BufferSizes,
                serviceContext : {NoServiceContext}] :
        Constructor(cfg, [writes |-> MaxWrites,
                          spans |-> PlainSpans, metadata |-> {"error"},
                          identity |-> Outcomes, transport |-> Outcomes])

\* The identity lookups: with and without a configured project id, lookups
\* that succeed or fail one by one.
InitIdentity ==
    \E cfg \in [projectId : {NoProjectId, ConfiguredProjectId},
                onUncaughtException : {"flushAndExit"},
                bufferSize : {1},
                serviceContext : {NoServiceContext}] :
        Constructor(cfg, [writes |-> MaxDeferredWrites,
                          spans |-> PlainSpans, metadata |-> {"error"},
                          identity |-> Outcomes, transport |-> Outcomes])

\* The labels: every span input, a metadata server that answers or not.
InitLabels ==
    \E cfg \in [projectId : {NoProjectId, ConfiguredProjectId},
                onUncaughtException : {"flushAndExit"},
                bufferSize : {1},
                serviceContext : {NoServiceContext}] :
        Constructor(cfg, [writes |-> MaxLabelWrites,
                         
                          spans |-> SpanInputs, metadata |-> Outcomes,
                          identity |-> {"ok"}, transport |-> Outcomes])

\* The uncaught exceptions: the three valid policies, a configured project
\* id, a transport that answers.
InitException ==
    \E cfg \in [projectId : {ConfiguredProjectId},
                onUncaughtException : onUncaughtExceptionValues,
                bufferSize : {2},
                serviceContext : {NoServiceContext}] :
        Constructor(cfg, [writes |-> MaxExceptionWrites,
                          spans |-> PlainSpans, metadata |-> {"error"},
                          identity |-> {"ok"}, transport |-> {"ok"}])

\* The service context: every combination of service, version and minor
\* version, a metadata server that answers or not.
InitService ==
    \E cfg \in [projectId : {ConfiguredProjectId},
                onUncaughtException : {"flushAndExit"},
                bufferSize : {1},
                serviceContext : ServiceContexts] :
        Constructor(cfg, [writes |-> MaxServiceWrites,
                          spans |-> PlainSpans, metadata |-> Outcomes,
                          identity |-> {"ok"}, transport |-> {"ok"}])

\* the writer exists and the process runs
Alive == constructed /\ ~exited

\* ------------------------------------------------------- flush and publish
\* publish(json): one call to this.request, answered later; the record keeps
\* which trigger flushed and whether stop() had been called by then
publish(reqs, json, trigger, active) ==
    Append(reqs, [body |-> json, trigger |-> trigger, afterStop |-> ~active,
                  response |-> "pending", errorLogs |-> 0, infoLogs |-> 0])

\* a flushBuffer without the test for an empty buffer
flushBuffer_PublishEmpty(buf, reqs, trigger, active) ==
    [buffer |-> <<>>,
     requests |-> publish(reqs, PayloadOf(buf), trigger, active)]

\* a flushBuffer that publishes the live buffer without replacing it
flushBuffer_NoSwap(buf, reqs, trigger, active) ==
    IF Len(buf) = 0
    THEN [buffer |-> buf, requests |-> reqs]
    ELSE [buffer |-> buf,
          requests |-> publish(reqs, PayloadOf(buf), trigger, active)]

\* flushBuffer(): nothing on an empty buffer, else swap the buffer and publish
flushBuffer(buf, reqs, trigger, active) ==
    IF Len(buf) = 0
    THEN [buffer |-> buf, requests |-> reqs]
    ELSE [buffer |-> <<>>,
          requests |-> publish(reqs, PayloadOf(buf), trigger, active)]

\* a threshold that is off by one
BufferFull_Late(len, bufferSize) == len > bufferSize

\* a threshold that is reached one push early
BufferFull_Early(len, bufferSize) == len + 1 >= bufferSize

\* `this.buffer.length >= this.config.bufferSize`
BufferFull(len, bufferSize) == len >= bufferSize

\* an afterProjectId that rejects a trace when the buffer is full
afterProjectId_DropWhenFull(trace, pid, buf, imm, bufferSize) ==
    IF Len(buf) >= bufferSize
    THEN [buffer |-> buf, immediates |-> imm + 1]
    ELSE LET b == Append(buf, JsonStringify([trace EXCEPT !.projectId = pid]))
         IN  [buffer |-> b,
              immediates |->
                  IF BufferFull(Len(b), bufferSize) THEN imm + 1 ELSE imm]

\* an afterProjectId that starts a new buffer with the trace
afterProjectId_Replace(trace, pid, buf, imm, bufferSize) ==
    LET b == <<JsonStringify([trace EXCEPT !.projectId = pid])>>
    IN  [buffer |-> b,
         immediates |-> IF BufferFull(Len(b), bufferSize) THEN imm + 1 ELSE imm]

\* an afterProjectId that drains a full buffer itself, before it returns
afterProjectId_InlineFlush(trace, pid, buf, imm, bufferSize) ==
    LET b == Append(buf, JsonStringify([trace EXCEPT !.projectId = pid]))
    IN  [buffer |-> IF BufferFull(Len(b), bufferSize) THEN <<>> ELSE b,
         immediates |-> imm]

\* an afterProjectId that puts the trace at the head of the buffer
afterProjectId_Unshift(trace, pid, buf, imm, bufferSize) ==
    LET b == <<JsonStringify([trace EXCEPT !.projectId = pid])>> \o buf
    IN  [buffer |-> b,
         immediates |-> IF BufferFull(Len(b), bufferSize) THEN imm + 1 ELSE imm]

\* an afterProjectId that pushes the trace as the caller passed it
afterProjectId_NoStamp(trace, pid, buf, imm, bufferSize) ==
    LET b == Append(buf, JsonStringify(trace))
    IN  [buffer |-> b,
         immediates |-> IF BufferFull(Len(b), bufferSize) THEN imm + 1 ELSE imm]

\* afterProjectId of queueTrace: stamp, push, and schedule a flush when full
afterProjectId(trace, pid, buf, imm, bufferSize) ==
    LET b == Append(buf, JsonStringify([trace EXCEPT !.projectId = pid]))
    IN  [buffer |-> b,
         immediates |-> IF BufferFull(Len(b), bufferSize) THEN imm + 1 ELSE imm]

\* a scheduleFlush that arms the timer whatever isActive says
Rearm_Always(active) == 1

\* a scheduleFlush whose isActive test is negated
Rearm_Inverted(active) == IF active THEN 0 ELSE 1

\* a scheduleFlush that never arms the timer again
Rearm_Never(active) == 0

\* `if (this.isActive)` of scheduleFlush: the timers armed by one run
Rearm(active) == IF active THEN 1 ELSE 0

\* a scheduleFlush that arms the timer without flushing first
scheduleFlush_ArmOnly(buf, reqs, active, timers) ==
    [buffer |-> buf, requests |-> reqs,
     timerPending |-> timers + Rearm(active)]

\* scheduleFlush(): flush, then arm the timer again while active
scheduleFlush(buf, reqs, active, timers) ==
    LET f == flushBuffer(buf, reqs, "timer", active)
    IN  [buffer |-> f.buffer, requests |-> f.requests,
         timerPending |-> timers + Rearm(active)]

\* a counter check that lets the first completion call back
CallbackAfter_First(calls, pending) ==
    IF pending - 1 <= 1 THEN Append(calls, "ok") ELSE calls

\* `if (--pendingOperations === 0) cb()`
CallbackAfter(calls, pending) ==
    IF pending - 1 = 0 THEN Append(calls, "ok") ELSE calls

\* a getProjectId with the test the wrong way round
ProjectIdKnown_Inverted(pid) == pid = NO_PROJECT_ID_TOKEN

\* a getProjectId that asks the collaborator every time
ProjectIdKnown_Never(pid) == FALSE

\* getProjectId: `this.projectId !== NO_PROJECT_ID_TOKEN` answers from the
\* field, without a call to Service#getProjectId
ProjectIdKnown(pid) == pid # NO_PROJECT_ID_TOKEN

\* a getProjectId that shares one call to the collaborator
SuperCalls_Shared(pid, calls) ==
    IF ProjectIdKnown(pid) \/ calls > 0 THEN calls ELSE calls + 1

\* getProjectId: the calls made to Service#getProjectId after this one;
\* `return super.getProjectId()` whenever the field holds the token
SuperCalls(pid, calls) ==
    IF ProjectIdKnown(pid) THEN calls ELSE calls + 1

\* ----------------------------------------------------------------- actions
\* initialize(cb): start the identity lookup and the label construction
Initialize ==
    /\ Alive /\ ~initCalled
    /\ initCalled' = TRUE
    /\ pendingOperations' = 2
    /\ lookups' = lookups \cup
          {[cont |-> "initialize", trace |-> NoTrace,
            cached |-> ProjectIdKnown(projectId)]}
    /\ lookupCalls' = SuperCalls(projectId, lookupCalls)
    /\ labelStage' = "getHostname"
    /\ UNCHANGED <<env, config, constructed, observer, projectId, buffer,
                   defaultLabels, isActive, cbCalls, hostnameArg, timerPending,
                   immediates, exitPending, exited, requests, logs,
                   written, fullPushes>>

\* a getProjectId promise is fulfilled: Service#getProjectId has written the
\* project id, then the continuation of initialize or of queueTrace runs
ProjectIdResolved(l) ==
    LET pid == IF l.cached THEN projectId ELSE ResolvedProjectId
    IN  /\ projectId' = pid
        /\ IF l.cont = "initialize"
           THEN LET s == scheduleFlush(buffer, requests, isActive, timerPending)
                IN  /\ buffer' = s.buffer
                    /\ requests' = s.requests
                    /\ timerPending' = s.timerPending
                    /\ pendingOperations' = pendingOperations - 1
                    /\ cbCalls' = CallbackAfter(cbCalls, pendingOperations)
                    /\ UNCHANGED <<immediates, fullPushes>>
           ELSE LET a == afterProjectId(l.trace, pid, buffer, immediates,
                                        config.bufferSize)
                IN  /\ buffer' = a.buffer
                    /\ immediates' = a.immediates
                    /\ fullPushes' = IF Len(a.buffer) >= config.bufferSize
                                      THEN fullPushes + 1 ELSE fullPushes
                    /\ UNCHANGED <<requests, timerPending, pendingOperations,
                                   cbCalls>>
        /\ UNCHANGED logs

\* a rejection handler that reports only the first trace it drops
ProjectIdRejected_LogOnce(l) ==
    /\ IF l.cont = "initialize"
       THEN /\ logs' = [logs EXCEPT !.initError = @ + 1]
            /\ cbCalls' = Append(cbCalls, "error")
       ELSE /\ logs' = [logs EXCEPT !.dropInfo = 1]
            /\ UNCHANGED cbCalls
    /\ UNCHANGED <<projectId, buffer, requests, timerPending, immediates,
                   pendingOperations, fullPushes>>

\* a getProjectId promise is rejected: initialize reports the error, queueTrace
\* drops its trace
ProjectIdRejected(l) ==
    /\ IF l.cont = "initialize"
       THEN /\ logs' = [logs EXCEPT !.initError = @ + 1]
            /\ cbCalls' = Append(cbCalls, "error")
       ELSE /\ logs' = [logs EXCEPT !.dropInfo = @ + 1]
            /\ UNCHANGED cbCalls
    /\ UNCHANGED <<projectId, buffer, requests, timerPending, immediates,
                   pendingOperations, fullPushes>>

\* a pending getProjectId promise settles; one that was made from a project
\* id already known (Promise.resolve) cannot be rejected
ProjectIdSettled(l, outcome) ==
    /\ Alive /\ l \in lookups
    /\ outcome = "error" => ~l.cached
    /\ lookups' = lookups \ {l}
    /\ IF outcome = "ok" THEN ProjectIdResolved(l) ELSE ProjectIdRejected(l)
    /\ UNCHANGED <<env, config, constructed, observer, defaultLabels, isActive,
                   initCalled, lookupCalls, labelStage, hostnameArg,
                   exitPending, exited, written>>

\* a getHostname without the fallback to the local host name
getHostname_NoFallback(outcome) ==
    IF outcome = "ok" THEN MetadataHostname ELSE None

\* what getHostname passes to its callback: res.data, or os.hostname() when
\* the metadata request failed
getHostname(outcome) ==
    IF outcome = "ok" THEN MetadataHostname ELSE OsHostname

\* what getInstanceId passes to its callback: res.data, or nothing when the
\* metadata request failed
getInstanceId(outcome, id) ==
    IF outcome = "ok" THEN {id} ELSE NoInstanceId

\* getHostname settles: the metadata host name, or os.hostname() on an error
HostnameSettled(outcome) ==
    /\ Alive /\ labelStage = "getHostname"
    /\ hostnameArg' = getHostname(outcome)
    /\ logs' = IF outcome = "error"
               THEN [logs EXCEPT !.warnHostname = @ + 1] ELSE logs
    /\ labelStage' = "getInstanceId"
    /\ UNCHANGED <<env, config, constructed, observer, projectId, buffer,
                   defaultLabels, isActive, initCalled, pendingOperations,
                   cbCalls, lookups, lookupCalls, timerPending, immediates,
                   exitPending, exited, requests, written, fullPushes>>

\* getInstanceId settles: the labels are built and frozen
InstanceIdSettled(outcome, id) ==
    /\ Alive /\ labelStage = "getInstanceId"
    /\ defaultLabels' =
          BuildDefaultLabels(config.serviceContext, hostnameArg,
                             getInstanceId(outcome, id))
    /\ logs' = IF outcome = "error"
               THEN [logs EXCEPT !.warnInstanceId = @ + 1] ELSE logs
    /\ labelStage' = "done"
    /\ pendingOperations' = pendingOperations - 1
    /\ cbCalls' = CallbackAfter(cbCalls, pendingOperations)
    /\ UNCHANGED <<env, config, constructed, observer, projectId, buffer,
                   isActive, initCalled, lookups, lookupCalls, hostnameArg,
                   timerPending, immediates, exitPending, exited, requests, written, fullPushes>>

\* writeSpan(trace): close the spans, copy the default labels, queue the trace
WriteSpan(spans) ==
    /\ Alive /\ Len(written) < env.writes
    /\ LET given == [projectId |-> "", traceId |-> Len(written) + 1,
                     spans |-> spans]
           trace == WriteSpanTrace(given, defaultLabels)
       IN  /\ written' = Append(written,
                  [trace |-> given,
                   copied |-> CopiedLabels(given, defaultLabels)])
           /\ IF projectId # NO_PROJECT_ID_TOKEN
              THEN LET a == afterProjectId(trace, projectId, buffer, immediates,
                                           config.bufferSize)
                   IN  /\ buffer' = a.buffer
                       /\ immediates' = a.immediates
                       /\ fullPushes' = IF Len(a.buffer) >= config.bufferSize
                                      THEN fullPushes + 1 ELSE fullPushes
                       /\ UNCHANGED <<lookups, lookupCalls>>
              ELSE /\ lookups' = lookups \cup
                         {[cont |-> "queueTrace", trace |-> trace,
                           cached |-> ProjectIdKnown(projectId)]}
                   /\ lookupCalls' = SuperCalls(projectId, lookupCalls)
                   /\ UNCHANGED <<buffer, immediates, fullPushes>>
    /\ defaultLabels' = LabelsAfterWrite(spans, defaultLabels)
    /\ UNCHANGED <<env, config, constructed, observer, projectId,
                   isActive, initCalled, pendingOperations,
                   cbCalls, labelStage, hostnameArg, timerPending, exitPending,
                   exited, requests, logs>>

\* the setImmediate callback of queueTrace runs
SizeFlush ==
    /\ Alive /\ immediates > 0
    /\ immediates' = immediates - 1
    /\ LET f == flushBuffer(buffer, requests, "size", isActive)
       IN  buffer' = f.buffer /\ requests' = f.requests
    /\ UNCHANGED <<env, config, constructed, observer, projectId,
                   defaultLabels, isActive, initCalled, pendingOperations,
                   cbCalls, lookups, lookupCalls, labelStage, hostnameArg,
                   timerPending, exitPending, exited, logs, written,
                   fullPushes>>

\* the setTimeout callback of scheduleFlush runs
TimerFire ==
    /\ Alive /\ timerPending > 0
    /\ LET s == scheduleFlush(buffer, requests, isActive, timerPending - 1)
       IN  /\ buffer' = s.buffer
           /\ requests' = s.requests
           /\ timerPending' = s.timerPending
    /\ UNCHANGED <<env, config, constructed, observer, projectId,
                   defaultLabels, isActive, initCalled, pendingOperations,
                   cbCalls, lookups, lookupCalls, labelStage, hostnameArg,
                   immediates, exitPending, exited, logs, written,
                   fullPushes>>

\* stop()
Stop ==
    /\ Alive /\ isActive
    /\ isActive' = FALSE
    /\ UNCHANGED <<env, config, constructed, observer, projectId, buffer,
                   defaultLabels, initCalled, pendingOperations, cbCalls,
                   lookups, lookupCalls, labelStage, hostnameArg, timerPending,
                   immediates, exitPending, exited, requests, logs,
                   written, fullPushes>>

\* an observer that never arms the exit timer
ExitArmed_Never(policy, pending) == pending

\* `if (onUncaughtException === 'flushAndExit')`: the observer arms the
\* 2000 ms exit timer; the first of these timers to run ends the process
ExitArmed(policy, pending) == pending \/ policy = "flushAndExit"

\* an observer that stop() takes away
ObserverRuns_WhileActive(installed, active) == installed /\ active

\* process.on('uncaughtException', ...): the listener runs on every uncaught
\* exception once installed; stop() does not remove it
ObserverRuns(installed, active) == installed

\* an uncaught exception is raised: the observer, when installed, flushes and
\* with flushAndExit arms the exit timer
UncaughtException ==
    /\ Alive
    /\ IF ObserverRuns(observer, isActive)
       THEN LET f == flushBuffer(buffer, requests, "exception", isActive)
            IN  /\ buffer' = f.buffer
                /\ requests' = f.requests
                /\ exitPending' =
                      ExitArmed(config.onUncaughtException, exitPending)
       ELSE UNCHANGED <<buffer, requests, exitPending>>
    /\ UNCHANGED <<env, config, constructed, observer, projectId,
                   defaultLabels, isActive, initCalled, pendingOperations,
                   cbCalls, lookups, lookupCalls, labelStage, hostnameArg,
                   timerPending, immediates, exited, logs, written, fullPushes>>

\* the timer of the observer runs process.exit(1)
ExitTimerFire ==
    /\ Alive /\ exitPending
    /\ exited' = TRUE
    /\ exitPending' = FALSE
    /\ UNCHANGED <<env, config, constructed, observer, projectId, buffer,
                   defaultLabels, isActive, initCalled, pendingOperations,
                   cbCalls, lookups, lookupCalls, labelStage, hostnameArg,
                   timerPending, immediates, requests, logs, written,
                   fullPushes>>

\* a callback that logs nothing when the transport rejects the call
publishCallback_Silent(req, buf, outcome) ==
    [request |-> [req EXCEPT !.response = outcome], buffer |-> buf]

\* a callback that puts a rejected batch back into the buffer
publishCallback_Requeue(req, buf, outcome) ==
    [request |-> IF outcome = "error"
                 THEN [req EXCEPT !.response = outcome, !.errorLogs = @ + 1]
                 ELSE [req EXCEPT !.response = outcome, !.infoLogs = @ + 1],
     buffer |-> IF outcome = "error" THEN req.body[2] \o buf ELSE buf]

\* the callback publish passes to this.request: one log entry, error or info;
\* the batch is not touched again
publishCallback(req, buf, outcome) ==
    [request |-> IF outcome = "error"
                 THEN [req EXCEPT !.response = outcome, !.errorLogs = @ + 1]
                 ELSE [req EXCEPT !.response = outcome, !.infoLogs = @ + 1],
     buffer |-> buf]

\* the transport answers a publish call
PublishResponse(i, outcome) ==
    /\ Alive /\ i \in 1..Len(requests)
    /\ requests[i].response = "pending"
    /\ LET c == publishCallback(requests[i], buffer, outcome)
       IN  /\ requests' = [requests EXCEPT ![i] = c.request]
           /\ buffer' = c.buffer
    /\ UNCHANGED <<env, config, constructed, observer, projectId,
                   defaultLabels, isActive, initCalled, pendingOperations,
                   cbCalls, lookups, lookupCalls, labelStage, hostnameArg,
                   timerPending, immediates, exitPending, exited, logs, written, fullPushes>>

Next ==
    \/ Initialize
    \/ \E l \in lookups, o \in env.identity : ProjectIdSettled(l, o)
    \/ \E o \in env.metadata : HostnameSettled(o)
    \/ \E o \in env.metadata, id \in InstanceIds : InstanceIdSettled(o, id)
    \/ \E spans \in env.spans : WriteSpan(spans)
    \/ SizeFlush
    \/ TimerFire
    \/ Stop
    \/ UncaughtException
    \/ ExitTimerFire
    \/ \E i \in 1..Len(requests), o \in env.transport : PublishResponse(i, o)

Spec == Init /\ [][Next]_vars

SpecIdentity == InitIdentity /\ [][Next]_vars

SpecLabels == InitLabels /\ [][Next]_vars

SpecService == InitService /\ [][Next]_vars

\* the exit timer of the observer is not unref'ed: once armed it runs
SpecException ==
    InitException /\ [][Next]_vars /\ WF_vars(ExitTimerFire)

\* ------------------------------------------------------------- properties
\* the traces of the i-th publish call, read back from its body
PublishedTraces(i) == JsonParseTraces(requests[i].body)

\* the traces waiting in the buffer, read back
BufferedTraces == [j \in 1..Len(buffer) |-> ParseTrace(buffer[j])]

TraceIds(traces) == [j \in 1..Len(traces) |-> traces[j].traceId]

SizePublishes == {i \in 1..Len(requests) : requests[i].trigger = "size"}

\* every trace written so far went through afterProjectId
AllQueued ==
    /\ \A l \in lookups : l.cont # "queueTrace"
    /\ logs.dropInfo = 0

\* the identity lookup of initialize was fulfilled
InitResolved ==
    /\ initCalled
    /\ \A l \in lookups : l.cont # "initialize"
    /\ logs.initError = 0

\* C1: with the identity resolved and no flush by the timer or by an uncaught
\* exception, bufferSize writeSpan calls lead to exactly one publish call,
\* and its payload holds exactly those bufferSize traces, in order; until the
\* scheduled flush runs, nothing is published and the traces wait in the buffer.
C1_FullBufferPublishesOnce ==
    (/\ Len(written) = config.bufferSize
     /\ AllQueued
     /\ SizePublishes = 1..Len(requests))
    => IF immediates > 0
       THEN requests = <<>> /\ Len(buffer) = config.bufferSize
       ELSE /\ Len(requests) = 1
            /\ TraceIds(PublishedTraces(1)) = [j \in 1..config.bufferSize |-> j]
            /\ buffer = <<>>

C1_Witness ==
    /\ config.bufferSize = 2 /\ Len(written) = 2
    /\ immediates = 0
    /\ Len(requests) = 1 /\ requests[1].trigger = "size"
    /\ TraceIds(PublishedTraces(1)) = <<1, 2>>

C3_NoFlushAfterStop ==
    \A i \in 1..Len(requests) : ~requests[i].afterStop

\* C3, amended: after stop() the writer stays inactive and no flush attempt
\* arms the periodic timer again; the timer that was pending at stop(), a full
\* buffer and an uncaught exception still flush.
C3_NoRearmAfterStop ==
    [][~isActive => (~isActive' /\ timerPending' <= timerPending)]_vars

C3_Witness ==
    /\ ~isActive /\ timerPending = 0
    /\ \E i \in 1..Len(requests) :
          requests[i].afterStop /\ requests[i].trigger = "timer"
    /\ \E i \in 1..Len(requests) :
          requests[i].afterStop /\ requests[i].trigger = "size"

\* C4: once the identity lookup of initialize has succeeded and until stop(),
\* exactly one periodic timer is pending; each time it fires, the whole buffer
\* (also one below the size threshold) is published and the timer is armed
\* again.
C4_TimerStep ==
    TimerFire =>
        /\ Len(buffer) > 0 =>
              /\ Len(requests') = Len(requests) + 1
              /\ requests'[Len(requests')].body = PayloadOf(buffer)
              /\ requests'[Len(requests')].trigger = "timer"
              /\ buffer' = <<>>
        /\ isActive => timerPending' = 1

C4_PeriodicFlush ==
    /\ []((InitResolved /\ isActive) => timerPending = 1)
    /\ [][C4_TimerStep]_vars

C4_Witness ==
    /\ isActive /\ timerPending = 1
    /\ \E i, j \in 1..Len(requests) :
          /\ i < j
          /\ requests[i].trigger = "timer" /\ requests[j].trigger = "timer"
          /\ Len(PublishedTraces(j)) < config.bufferSize

\* C9: every publish call the transport rejects has exactly one error-level
\* log entry (and a call not rejected has none), and the step that delivers
\* an answer changes only that call's record: the buffer, the active flag,
\* the timers and the other publish calls are as they were.
C9_AnswerStep ==
    (/\ Len(requests') = Len(requests)
     /\ \E i \in 1..Len(requests) : requests'[i].response # requests[i].response)
    => /\ buffer' = buffer
       /\ isActive' = isActive
       /\ timerPending' = timerPending
       /\ immediates' = immediates
       /\ Cardinality({i \in 1..Len(requests) : requests'[i] # requests[i]}) = 1

C9_RejectedPublishLogsOnce ==
    /\ [](\A i \in 1..Len(requests) :
             requests[i].errorLogs =
                 IF requests[i].response = "error" THEN 1 ELSE 0)
    /\ [][C9_AnswerStep]_vars

C9_Witness ==
    /\ Len(requests) >= 2
    /\ requests[1].response = "error" /\ requests[1].errorLogs = 1
    /\ requests[2].response = "ok"
    /\ Len(buffer) = 1

\* the places where the trace with id t sits: in a publish call or the buffer
Places(t) ==
    {<<i, j>> \in (1..Len(requests)) \X (1..Len(written)) :
        j <= Len(requests[i].body[2])
        /\ TraceIdOf(requests[i].body[2][j]) = t}
    \cup
    {<<0, j>> : j \in {k \in 1..Len(buffer) : TraceIdOf(buffer[k]) = t}}

\* C10: a trace is in at most one place, the buffer or one publish call, once:
\* a batch handed to publish is never put back into the buffer nor sent again,
\* whatever the transport answers.
C10_PublishedAtMostOnce ==
    \A t \in 1..Len(written) : Cardinality(Places(t)) <= 1

C10_Witness ==
    /\ Len(requests) >= 2
    /\ requests[1].response = "error"
    /\ requests[2].response # "pending"
    /\ \A t \in 1..Len(written) : Cardinality(Places(t)) = 1
    /\ Len(written) = MaxWrites

\* the spans that were queued: <<the span as queued, the span as the caller
\* gave it, the labels writeSpan had to copy>>, from the buffer and from
\* every publish call
SpansOf(traces) ==
    {<<traces[j].spans[n], written[traces[j].traceId].trace.spans[n],
       written[traces[j].traceId].copied>> :
        <<j, n>> \in {p \in (1..Len(traces)) \X (1..1) :
                        p[2] <= Len(traces[p[1]].spans)}}

PublishedSpans ==
    UNION {SpansOf(PublishedTraces(i)) : i \in 1..Len(requests)}

QueuedSpans == SpansOf(BufferedTraces) \cup PublishedSpans

\* C5 as claimed: on a server span, a label key the caller set keeps the
\* caller's value.
C5_CallerLabelsKept ==
    \A q \in QueuedSpans :
        q[2].kind = RPC_SERVER =>
            \A k \in DOMAIN q[2].labels : q[1].labels[k] = q[2].labels[k]

\* C5, amended: on a server span, a label key the caller set keeps the
\* caller's value unless the default labels have that key too; on such a
\* collision the value of the default labels replaces the caller's.
C5_DefaultLabelsOverwrite ==
    \A q \in QueuedSpans :
        q[2].kind = RPC_SERVER =>
            \A k \in DOMAIN q[2].labels :
                q[1].labels[k] =
                    IF k \in DOMAIN q[3] THEN q[3][k] ELSE q[2].labels[k]

C5_Witness ==
    \E q \in PublishedSpans :
        /\ q[2].kind = RPC_SERVER
        /\ q[2].labels[GCE_HOSTNAME] = <<"caller">>
        /\ q[1].labels[GCE_HOSTNAME] = MetadataHostname
        /\ q[1].labels["caller/key"] = <<"caller">>

\* C6 as claimed: every key of the writer's default labels that the caller
\* did not set is on every published server span, with the default value,
\* whenever the span was written.
C6_DefaultLabelsPublished ==
    \A q \in PublishedSpans :
        q[2].kind = RPC_SERVER =>
            \A k \in (DOMAIN defaultLabels) \ (DOMAIN q[2].labels) :
                k \in DOMAIN q[1].labels /\ q[1].labels[k] = defaultLabels[k]

\* C6, amended: the same for the server spans written after the label
\* construction of initialize has completed; a span written earlier is
\* published without the default labels.
C6_DefaultLabelsAfterInit ==
    \A q \in PublishedSpans :
        (q[2].kind = RPC_SERVER /\ q[3] # EmptyLabels) =>
            \A k \in (DOMAIN defaultLabels) \ (DOMAIN q[2].labels) :
                k \in DOMAIN q[1].labels /\ q[1].labels[k] = defaultLabels[k]

C6_Witness ==
    \E q \in PublishedSpans :
        /\ q[2].kind = RPC_SERVER
        /\ q[3] # EmptyLabels
        /\ q[1].labels[AGENT_DATA] = AgentData
        /\ GCE_INSTANCE_ID \in DOMAIN q[1].labels
        /\ GCE_INSTANCE_ID \in DOMAIN defaultLabels

\* C7 as claimed: once the identity lookup of initialize has failed, no
\* publish call holds any trace.
C7_InertAfterFailedInit ==
    logs.initError > 0 => requests = <<>>

\* C8: initialize calls its callback at most once; without an error only when
\* its identity lookup and the label construction have both completed, and
\* then it has; with an error when its identity lookup has failed.
C8_CallbackOnce ==
    /\ Len(cbCalls) <= 1
    /\ cbCalls = <<"ok">> => (InitResolved /\ labelStage = "done")
    /\ (InitResolved /\ labelStage = "done") => cbCalls = <<"ok">>
    /\ logs.initError > 0 => cbCalls = <<"error">>
    /\ cbCalls = <<"error">> => logs.initError = 1

C8_Witness ==
    /\ cbCalls = <<"error">>
    /\ labelStage = "done"
    /\ pendingOperations = 1

\* the serialized traces of all publish calls
PublishedTexts ==
    UNION {{requests[i].body[2][j] : j \in 1..Len(requests[i].body[2])} :
            i \in 1..Len(requests)}

\* C11: every trace of every publish call carries the project id of the
\* writer, which is then neither the empty value the caller passed nor the
\* token of an unresolved id.
C11_PublishedProjectId ==
    \A text \in PublishedTexts :
        /\ ProjectIdOf(text) = projectId
        /\ ProjectIdOf(text) \notin {"", NO_PROJECT_ID_TOKEN}
        /\ ProjectIdOf(text) =
              IF config.projectId # NoProjectId
              THEN config.projectId ELSE ResolvedProjectId

C11_Witness ==
    /\ config.projectId = NoProjectId
    /\ Len(requests) = 2
    /\ \A text \in PublishedTexts : ProjectIdOf(text) = ResolvedProjectId
    /\ \E i \in 1..Len(written) : written[i].trace.projectId = ""

\* C12: every span in the buffer and in every publish call has an end time:
\* the current time of the write when the caller passed none, the caller's
\* end time otherwise.
C12_EndTimeStamped ==
    \A q \in QueuedSpans :
        /\ q[1].endTime # ""
        /\ q[1].endTime = IF q[2].endTime = "" THEN Now ELSE q[2].endTime

C12_Witness ==
    \E q \in PublishedSpans : q[2].endTime = "" /\ q[1].endTime = Now

\* C13: with a project id in the configuration, Service#getProjectId is never
\* called, by initialize or by a writeSpan, and the project id of the writer
\* is the configured one.
C13_ConfiguredIdNeedsNoLookup ==
    config.projectId # NoProjectId =>
        /\ lookupCalls = 0
        /\ projectId = config.projectId
        /\ \A l \in lookups : l.cached

C13_Witness ==
    /\ config.projectId = ConfiguredProjectId
    /\ cbCalls = <<"ok">>
    /\ Len(written) = MaxDeferredWrites
    /\ Len(requests) = MaxDeferredWrites
    /\ lookupCalls = 0

\* one step of a writer that has a project id
C14_Step ==
    projectId # NO_PROJECT_ID_TOKEN =>
        /\ projectId' = projectId
        /\ lookupCalls' = lookupCalls
        /\ \A l \in lookups' \ lookups : l.cached

\* C14: once the writer has a project id other than the token, the id never
\* changes and no later getProjectId, initialize or writeSpan calls
\* Service#getProjectId.
C14_ProjectIdCached == [][C14_Step]_vars

C14_Witness ==
    /\ config.projectId = NoProjectId
    /\ projectId = ResolvedProjectId
    /\ initCalled /\ cbCalls = <<"ok">>
    /\ Len(written) = MaxDeferredWrites
    /\ Len(requests) = MaxDeferredWrites
    /\ lookupCalls = 1

\* C15: the construction of a writer whose onUncaughtException is none of
\* ignore, flush, flushAndExit throws (after one error log) and installs no
\* uncaught-exception observer; the writer does nothing afterwards. Any of
\* the three values constructs the writer.
C15_InvalidPolicyThrows ==
    IF config.onUncaughtException \in {"ignore", "flush", "flushAndExit"}
    THEN constructed /\ logs.ctorError = 0
    ELSE /\ ~constructed /\ ~observer /\ logs.ctorError = 1
         /\ requests = <<>> /\ buffer = <<>> /\ ~exitPending /\ ~exited

C15_Witness ==
    /\ config.onUncaughtException = "bogus"
    /\ ~constructed /\ ~observer /\ logs.ctorError = 1

\* the publish calls made by the uncaught-exception observer
ExceptionPublishes ==
    {i \in 1..Len(requests) : requests[i].trigger = "exception"}

\* what an uncaught exception does, by policy
C16_ExceptionStep ==
    UncaughtException =>
        IF config.onUncaughtException \in {"flush", "flushAndExit"}
        THEN /\ buffer' = <<>>
             /\ requests' =
                   IF buffer = <<>> THEN requests
                   ELSE Append(requests,
                               [body |-> PayloadOf(buffer),
                                trigger |-> "exception",
                                afterStop |-> ~isActive,
                                response |-> "pending",
                                errorLogs |-> 0, infoLogs |-> 0])
             /\ exitPending' =
                   (exitPending \/ config.onUncaughtException = "flushAndExit")
             /\ exited' = exited
        ELSE UNCHANGED vars

\* the exit timer is armed only by a step that flushed, and the process
\* exits only through an armed exit timer
C16_ExitStep ==
    /\ (exitPending' /\ ~exitPending) =>
          (config.onUncaughtException = "flushAndExit" /\ buffer' = <<>>)
    /\ (exited' /\ ~exited) => exitPending

\* C16: with flush or flushAndExit every uncaught exception flushes the
\* buffer at once; with flushAndExit it also arms the exit timer, which ends
\* the process later and never before that flush; with ignore there is no
\* observer, and an uncaught exception changes nothing in the writer.
C16_ExceptionPolicy ==
    /\ [][C16_ExceptionStep /\ C16_ExitStep]_vars
    /\ [](config.onUncaughtException = "ignore" =>
            (~observer /\ ~exitPending /\ ~exited /\ ExceptionPublishes = {}))
    /\ [](config.onUncaughtException = "flush" => (~exitPending /\ ~exited))
    /\ []((Alive /\ buffer # <<>>
            /\ config.onUncaughtException \in {"flush", "flushAndExit"})
           => ENABLED <<UncaughtException>>_vars)
    /\ (exitPending ~> exited)

C16_Witness ==
    /\ config.onUncaughtException = "flushAndExit"
    /\ exited
    /\ ExceptionPublishes # {}
    /\ buffer = <<>>

\* an uncaught exception raised after stop()
C17_StoppedExceptionStep ==
    (UncaughtException /\ ~isActive /\ observer) =>
        /\ buffer' = <<>>
        /\ buffer # <<>> =>
              /\ Len(requests') = Len(requests) + 1
              /\ requests'[Len(requests')].trigger = "exception"
              /\ requests'[Len(requests')].afterStop
              /\ requests'[Len(requests')].body = PayloadOf(buffer)

\* C17: the observer stays installed for the life of the process, stop()
\* included: with flush or flushAndExit an uncaught exception raised after
\* stop() still flushes the buffer (with traces in the buffer it is a step
\* that changes the state, and every such step publishes them).
C17_ObserverSurvivesStop ==
    /\ [](constructed =>
            (observer <=> config.onUncaughtException \in {"flush", "flushAndExit"}))
    /\ [][observer' = observer /\ C17_StoppedExceptionStep]_vars
    /\ []((Alive /\ ~isActive /\ observer /\ buffer # <<>>)
           => ENABLED <<UncaughtException>>_vars)

C17_Witness ==
    /\ ~isActive
    /\ config.onUncaughtException = "flush"
    /\ \E i \in ExceptionPublishes :
          requests[i].afterStop /\ requests[i].response = "ok"

\* a writeSpan call made with the project id known
C18_WriteStep ==
    (Len(written') = Len(written) + 1 /\ projectId # NO_PROJECT_ID_TOKEN) =>
        /\ Len(buffer') = Len(buffer) + 1
        /\ SubSeq(buffer', 1, Len(buffer)) = buffer
        /\ TraceIdOf(buffer'[Len(buffer')]) = Len(written')

\* the written traces that are nowhere: not in the buffer, in no publish
\* call, and not waiting for a project id
DroppedTraces ==
    {t \in 1..Len(written) :
        /\ Places(t) = {}
        /\ \A l \in lookups : l.trace.traceId # t}

\* C18: with the project id known, a writeSpan call appends one entry to the
\* buffer whatever the length of the buffer, at or above bufferSize too; a
\* trace is dropped only by a project id lookup that failed, one trace for
\* each such failure.
C18_NoDropOnOverflow ==
    /\ [][C18_WriteStep]_vars
    /\ [](Cardinality(DroppedTraces) = logs.dropInfo)

C18_Witness ==
    /\ Len(buffer) > config.bufferSize
    /\ Len(written) = Len(buffer)
    /\ immediates = Len(buffer)

C20_ServiceLabels ==
    labelStage = "done" =>
        LET sc == config.serviceContext
            name == defaultLabels[GAE_MODULE_NAME]
        IN  /\ name = IF sc.service # None THEN sc.service ELSE hostnameArg
            /\ hostnameArg \in {MetadataHostname, OsHostname}
            /\ (GAE_MODULE_VERSION \in DOMAIN defaultLabels) <=> sc.version # None
            /\ sc.version # None => defaultLabels[GAE_MODULE_VERSION] = sc.version
            /\ (GAE_VERSION \in DOMAIN defaultLabels) <=>
                  (sc.version # None /\ sc.minorVersion # None)
            /\ (sc.version # None /\ sc.minorVersion # None) =>
                  defaultLabels[GAE_VERSION] =
                      IF name = <<"default">>
                      THEN <<sc.version[1], ".", sc.minorVersion[1]>>
                      ELSE <<name[1], ":", sc.version[1], ".", sc.minorVersion[1]>>

C20_Witness ==
    /\ labelStage = "done"
    /\ config.serviceContext =
          [service |-> <<"default">>, version |-> <<"bar">>,
           minorVersion |-> <<"baz">>]
    /\ defaultLabels[GAE_MODULE_NAME] = <<"default">>
    /\ defaultLabels[GAE_MODULE_VERSION] = <<"bar">>
    /\ defaultLabels[GAE_VERSION] = <<"bar", ".", "baz">>

\* C21 as claimed: however many traces are dropped, one entry about dropping
\* is logged in total.
C21_SingleDropLog == logs.dropInfo <= 1

\* a step that logs a drop: the rejection handler of one waiting trace
C21_DropStep ==
    /\ logs'.dropInfo \in {logs.dropInfo, logs.dropInfo + 1}
    /\ logs'.dropInfo = logs.dropInfo + 1 =>
          \E l \in lookups :
              /\ l.cont = "queueTrace" /\ ~l.cached
              /\ lookups' = lookups \ {l}
              /\ buffer' = buffer /\ requests' = requests

\* C21, amended: every trace dropped because its project id lookup failed is
\* reported by an informational log entry of its own; n dropped traces leave
\* n entries.
C21_DropLogPerTrace ==
    /\ [][C21_DropStep]_vars
    /\ [](logs.dropInfo = Cardinality(DroppedTraces))

C21_Witness ==
    /\ logs.dropInfo = MaxDeferredWrites
    /\ Cardinality(DroppedTraces) = MaxDeferredWrites
    /\ buffer = <<>> /\ requests = <<>>

\* the lookup of a waiting trace resolves: the trace goes to the end of the
\* buffer with the project id the lookup found
C22_ResolveStep ==
    \A l \in lookups :
        (/\ l.cont = "queueTrace" /\ ~l.cached
         /\ lookups' = lookups \ {l}
         /\ logs' = logs) =>
            /\ Len(buffer') = Len(buffer) + 1
            /\ SubSeq(buffer', 1, Len(buffer)) = buffer
            /\ TraceIdOf(buffer'[Len(buffer')]) = l.trace.traceId
            /\ ProjectIdOf(buffer'[Len(buffer')]) = ResolvedProjectId
            /\ projectId' = ResolvedProjectId
            /\ immediates' =
                  IF Len(buffer') >= config.bufferSize
                  THEN immediates + 1 ELSE immediates

\* the next trigger that finds traces in the buffer publishes all of them
C22_FlushStep ==
    Len(requests') > Len(requests) =>
        /\ buffer # <<>> /\ buffer' = <<>>
        /\ Len(requests') = Len(requests) + 1
        /\ requests'[Len(requests')].body = PayloadOf(buffer)

BatchIds(i) ==
    {TraceIdOf(requests[i].body[2][j]) : j \in 1..Len(requests[i].body[2])}

BufferIds == {TraceIdOf(buffer[j]) : j \in 1..Len(buffer)}

\* a batch handed to publish is never touched again, and a write goes to the
\* live buffer, not to a batch
C23_Step ==
    /\ Len(requests') >= Len(requests)
    /\ \A i \in 1..Len(requests) : requests'[i].body = requests[i].body
    /\ Len(requests') > Len(requests) =>
          /\ buffer' = <<>>
          /\ requests'[Len(requests')].body = PayloadOf(buffer)
    /\ Len(written') > Len(written) =>
          /\ requests' = requests
          /\ buffer' = Append(buffer, buffer'[Len(buffer')])
          /\ TraceIdOf(buffer'[Len(buffer')]) = Len(written')

\* C23: a flush takes the whole buffer and leaves an empty one in one step; a
\* trace written while a publish call is in flight goes to the live buffer
\* and never into the batch in flight; the batches of two publish calls, and
\* every batch and the live buffer, have no trace in common.
C23_BatchesDisjoint ==
    /\ [][C23_Step]_vars
    /\ [](\A i \in 1..Len(requests) :
            /\ BatchIds(i) \cap BufferIds = {}
            /\ \A j \in 1..Len(requests) :
                  i # j => BatchIds(i) \cap BatchIds(j) = {})

C23_Witness ==
    /\ Len(requests) = 2
    /\ requests[1].response = "pending"
    /\ requests[2].response = "pending"
    /\ BatchIds(1) = {1}
    /\ BatchIds(2) = {2}
    /\ BufferIds = {3}

\* a step taken with an empty buffer issues no publish call
C24_EmptyStep ==
    buffer = <<>> =>
        /\ Len(requests') = Len(requests)
        /\ \A i \in 1..Len(requests) : requests'[i].body = requests[i].body
        /\ Len(written') = Len(written) => buffer' = <<>>

\* C24: a flush attempt on an empty buffer, by the size trigger, the timer or
\* the uncaught-exception observer, issues no publish call and leaves the
\* buffer and the requests as they are; no publish call carries zero traces.
C24_EmptyFlushIsNoOp ==
    /\ [][C24_EmptyStep]_vars
    /\ [](\A i \in 1..Len(requests) : Len(requests[i].body[2]) >= 1)

C24_Witness ==
    /\ fullPushes = 2 /\ immediates = 0
    /\ Len(requests) = 1
    /\ requests[1].trigger = "size"
    /\ buffer = <<>>
    /\ Len(written) = MaxExceptionWrites

\* a writeSpan call, seen from the buffer and the publish calls
C25_WriteStep ==
    Len(written') > Len(written) =>
        /\ requests' = requests
        /\ Len(buffer') = Len(buffer) + 1
        /\ TraceIdOf(buffer'[Len(buffer')]) = Len(written')
        /\ immediates' =
              IF Len(buffer') >= config.bufferSize
              THEN immediates + 1 ELSE immediates

\* C25: writeSpan never flushes. A write that brings the buffer to bufferSize
\* entries or more returns with the trace in the buffer and no publish call
\* made; it leaves a flush scheduled, which runs as a later step of its own.
C25_SizeFlushDeferred ==
    /\ [][C25_WriteStep]_vars
    /\ [][Len(requests') > Len(requests) => written' = written]_vars
    /\ []((Len(buffer) >= config.bufferSize /\ Alive /\ immediates > 0)
            => ENABLED <<SizeFlush>>_vars)

C25_Witness ==
    /\ Len(written) = config.bufferSize
    /\ Len(buffer) = config.bufferSize
    /\ immediates = 1
    /\ requests = <<>>
    /\ ENABLED <<SizeFlush>>_vars

\* the publish calls made by scheduleFlush
TimerPublishes == {i \in 1..Len(requests) : requests[i].trigger = "timer"}

\* C26 as claimed: no periodic flush and no armed timer while the label
\* construction is pending.
C26_PeriodicFlushAfterLabels ==
    (timerPending > 0 \/ TimerPublishes # {}) => labelStage = "done"

\* the step on which the identity lookup of initialize succeeds: the first
\* scheduleFlush, wherever the label construction stands
C26_IdentityStep ==
    (~InitResolved /\ InitResolved') =>
        /\ buffer' = <<>>
        /\ buffer # <<>> =>
              /\ Len(requests') = Len(requests) + 1
              /\ requests'[Len(requests')].trigger = "timer"
              /\ requests'[Len(requests')].body = PayloadOf(buffer)
        /\ timerPending' = IF isActive THEN 1 ELSE 0
        /\ labelStage' = labelStage

\* C26, amended: the first periodic flush and the arming of the timer happen
\* when the identity resolution of initialize succeeds, whether or not the
\* label construction has completed; before that there is no periodic flush
\* and no timer.
C26_PeriodicFlushAfterIdentity ==
    /\ [][C26_IdentityStep]_vars
    /\ []((timerPending > 0 \/ TimerPublishes # {}) => InitResolved)
    /\ []((InitResolved /\ isActive) => timerPending = 1)

C26_Witness ==
    /\ InitResolved
    /\ labelStage = "getHostname"
    /\ timerPending = 1
    /\ TimerPublishes # {}
    /\ cbCalls = <<>>

\* C27: once the label construction has completed, the default labels never
\* change, whatever is written, flushed, answered, thrown or stopped;
\* writeSpan changes the labels of the spans it is given only.
C27_DefaultLabelsFrozen ==
    /\ [][labelStage = "done" =>
            (defaultLabels' = defaultLabels /\ labelStage' = "done")]_vars
    /\ [](labelStage = "done" =>
            /\ AGENT_DATA \in DOMAIN defaultLabels
            /\ "caller/key" \notin DOMAIN defaultLabels
            /\ defaultLabels[GCE_HOSTNAME] \in {MetadataHostname, OsHostname})

C27_Witness ==
    /\ labelStage = "done"
    /\ ~isActive
    /\ \E q \in PublishedSpans :
          /\ q[2].kind = RPC_SERVER
          /\ q[3] = defaultLabels
          /\ q[1].labels["caller/key"] = <<"caller">>
    /\ \E i \in 1..Len(requests) : requests[i].response = "error"

\* C28: a span whose kind is not RPC_SERVER is queued and published with the
\* labels the caller gave it, no key added and no value changed.
C28_OtherKindsKeepLabels ==
    \A q \in QueuedSpans :
        q[2].kind # RPC_SERVER =>
            /\ q[1].kind = q[2].kind
            /\ q[1].labels = q[2].labels

C28_Witness ==
    /\ labelStage = "done"
    /\ defaultLabels # EmptyLabels
    /\ \E q \in PublishedSpans :
          /\ q[1].kind = RPC_CLIENT
          /\ q[1].labels = CallerLabels
          /\ AGENT_DATA \notin DOMAIN q[1].labels

\* C29 as claimed: Service#getProjectId is called at most once in the life
\* of a writer.
C29_SingleLookup == lookupCalls <= 1

\* a step calls Service#getProjectId exactly when it is an initialize or a
\* writeSpan made while the project id is not known
C29_LookupStep ==
    /\ lookupCalls' \in {lookupCalls, lookupCalls + 1}
    /\ lookupCalls' = lookupCalls + 1 <=>
          /\ projectId = NO_PROJECT_ID_TOKEN
          /\ Len(written') > Len(written) \/ (initCalled' /\ ~initCalled)

\* C29, amended: every initialize and every writeSpan made while the project
\* id is not known calls Service#getProjectId once, so several lookups can be
\* pending at a time; no call is made once the project id is known.
C29_LookupPerCall ==
    /\ [][C29_LookupStep]_vars
    /\ [](lookupCalls <= Len(written) + 1)
    /\ [](Cardinality({l \in lookups : ~l.cached}) <= lookupCalls)

C29_Witness ==
    /\ initCalled
    /\ lookupCalls = MaxDeferredWrites + 1
    /\ Cardinality(lookups) = MaxDeferredWrites + 1
    /\ projectId = NO_PROJECT_ID_TOKEN

\* the trace ids of a sequence of serialized traces, in its order
IdsInOrder(texts) == [j \in 1..Len(texts) |-> TraceIdOf(texts[j])]

\* ids that grow along the sequence: the order of the writeSpan calls
Ascending(ids) == \A j \in 1..(Len(ids) - 1) : ids[j] < ids[j + 1]

\* C30: with the project id known at every write, the traces of a payload,
\* and of the buffer, are in the order of their writeSpan calls, and every
\* trace of an earlier publish call was written before every trace of a
\* later publish call and before every trace still in the buffer.
C30_WriteOrderKept ==
    /\ Ascending(IdsInOrder(buffer))
    /\ \A i \in 1..Len(requests) :
          /\ Ascending(IdsInOrder(requests[i].body[2]))
          /\ \A a \in BatchIds(i) :
                /\ \A b \in BufferIds : a < b
                /\ \A j \in (i + 1)..Len(requests) :
                      \A b \in BatchIds(j) : a < b

C30_Witness ==
    /\ Len(requests) = 2
    /\ IdsInOrder(requests[1].body[2]) = <<1, 2>>
    /\ IdsInOrder(requests[2].body[2]) = <<3>>
    /\ requests[2].response = "ok"
    /\ requests[1].response = "pending"

\* a run of scheduleFlush made after stop(): by the timer callback, or by the
\* then-handler of initialize when stop() came before the identity lookup
\* settled
C31_StoppedRun ==
    /\ ~isActive
    /\ \/ TimerFire
       \/ \E l \in lookups : l.cont = "initialize" /\ ProjectIdResolved(l)

\* the publish calls scheduleFlush made after stop()
C31_StoppedTimerPublishes == {i \in TimerPublishes : requests[i].afterStop}

\* C31: after stop() at most one periodic timer is pending (the one armed
\* before stop()); a run of scheduleFlush after stop() leaves no timer pending,
\* consuming the pending one without arming another; once no timer is pending
\* after stop() none is pending ever again, so scheduleFlush publishes at most
\* once after stop().
C31_OneTimerRunAfterStop ==
    /\ [](~isActive => timerPending <= 1)
    /\ [][C31_StoppedRun => timerPending' = 0]_vars
    /\ [][(~isActive /\ timerPending = 0) => timerPending' = 0]_vars
    /\ [](Cardinality(C31_StoppedTimerPublishes) <= 1)

C31_Witness ==
    /\ ~isActive /\ timerPending = 0 /\ InitResolved
    /\ Cardinality(C31_StoppedTimerPublishes) = 1
    /\ Cardinality(TimerPublishes) = 2
    /\ buffer # <<>>

====
